---- MODULE Spec2Model ----
(***************************************************************************)
(* A model of the search policies of mctx/_src/policies.py:                *)
(*   muzero_policy_for_action_sequence  (specification Spec)               *)
(*   muzero_policy                      (specification SpecMuzero)         *)
(*   gumbel_muzero_policy, called twice (specification SpecGumbel)         *)
(* The tree is the array-backed tree of the search engine; one record per  *)
(* batch element holds that element's rows of the [B, N, ...] arrays.      *)
(* Values that are opaque floats of the learned model (priors, rewards,    *)
(* node values) do not decide control flow here except through the action  *)
(* selection, which is therefore a choice over the actions.                *)
(***************************************************************************)
EXTENDS Integers, Sequences, FiniteSets, TLC

\* A jnp array: the values of f, computed once.
Array(f) == f @@ <<>>

\* ------------------------------------------------------------- bounds
MaxBatch == 2
NumActions == 2
MaxSimulations == 3
MaxActionsToGenerate == 2
MaxDepthArg == 2
\* batch_size * num_simulations * num_actions_to_generate is at most this
MaxTreeWork == 4

\* ---------------------------------------------------------- constants
\* Tree.NO_PARENT and Tree.UNVISITED, the sentinels of the tree arrays.
NO_PARENT == -1
UNVISITED == -1
\* The fill value of performed_actions before an action is written.
UNFILLED == -1
\* -log(finfo(float32).tiny), rounded down: the logit distance between a
\* probability floored at `tiny` and probability one.
LogTiny == 87
\* An upper bound of the width of the range of float32 Gumbel samples
\* that jax.random.categorical adds to the logits before its argmax.
GumbelSpan == 21

\* An optional argument: None is the empty set, a given value v is {v}.
None == {}
Some(v) == {v}
Value(opt) == CHOOSE v \in opt : TRUE

Actions == 0 .. NumActions - 1
Temperatures == {0, 1, 100}

VARIABLES
  pc,                      \* position in the policy call
  batch_size, num_simulations, num_actions_to_generate,
  invalid_actions,         \* None, or Some([Batch -> SUBSET Actions])
  max_depth_arg,           \* None, or Some(integer)
  temperature,
  stopping_criteria_fn,    \* which predicate over the root embedding
  tree,                    \* [Batch -> tree rows]; <<>> before allocation
  max_depth,               \* loop state of the outer fori_loop
  performed_actions,       \* [Batch -> [0..K-1 -> action or UNFILLED]]
  stop_generating,
  generated_action,        \* counter of the outer fori_loop
  sim,                     \* counter of the inner fori_loop
  parent_index, action, next_node_index,   \* locals of one simulation
  recurrent_calls,         \* calls of recurrent_fn so far
  stopping_calls,          \* calls of stopping_criteria_fn so far
  sim_cycles,              \* completed simulate/expand/backward cycles
  rounds_executed,         \* executions of generate_next_action
  prev_root_index,         \* the roots before the latest re-rooting
  action_selection_fn,     \* the action selection handed to the search
  out_action,              \* PolicyOutput.action of the one-action policies
  action_weights,          \* PolicyOutput.action_weights
  gumbel_scale, max_num_considered_actions,
  prior_logits,            \* root.prior_logits, [Batch -> [Actions -> Int]]
  rng_key,                 \* the random key of the call
  first_output,            \* the PolicyOutput of an earlier call, or <<>>
  loop_rng_key,            \* the rng_key of the policy after its split
  sim_rng_key,             \* the rng_key of the simulation loop's state
  consumed_keys,           \* the keys an operation has used
  reused_keys              \* the keys more than one operation has used

args == <<batch_size, num_simulations, num_actions_to_generate,
          invalid_actions, max_depth_arg, temperature, stopping_criteria_fn,
          action_selection_fn, gumbel_scale, max_num_considered_actions,
          prior_logits>>
locals == <<parent_index, action, next_node_index>>
counters == <<recurrent_calls, stopping_calls, sim_cycles, rounds_executed,
              prev_root_index>>
loop == <<max_depth, performed_actions, stop_generating, generated_action>>
output == <<out_action, action_weights>>
calls == <<rng_key, first_output>>
keys == <<loop_rng_key, sim_rng_key, consumed_keys, reused_keys>>
vars == <<pc, args, tree, loop, sim, locals, counters, output, calls, keys>>

\* A key is the path of splits that led to it from the caller's key:
\* jax.random.split(key, n)[i] is the key's i-th child.
CallerKey == <<rng_key>>
Split(key, i) == Append(key, i)
Parent(key) == SubSeq(key, 1, Len(key) - 1)

\* The operations of one step use the keys `used`, one operation each.
UseKeys(used) ==
  /\ consumed_keys' = consumed_keys \cup {used[i] : i \in DOMAIN used}
  /\ reused_keys' = reused_keys \cup
       { used[i] : i \in { j \in DOMAIN used :
           \/ used[j] \in consumed_keys
           \/ \E l \in DOMAIN used : l # j /\ used[l] = used[j] } }

Batch == 0 .. batch_size - 1
\* instantiate_tree_from_root(root, num_simulations): root plus one node
\* per simulation.
NumNodes == 1 + num_actions_to_generate * num_simulations
Nodes == 0 .. NumNodes - 1
\* jnp indexing: a negative index counts from the end of the axis.
Idx(i) == IF i < 0 THEN i + NumNodes ELSE i

\* ----------------------------------------------------------- the model
\* recurrent_fn's new embedding: a deterministic, injective function of
\* the parent's embedding and the action (the root's embedding is 1, a
\* slot never written holds 0).
RecurrentFn(embedding, a) == NumActions * embedding + a

\* The stopping predicates tried: never (the default lambda x: False),
\* always, and "some root was reached by the last action of the range".
StoppingFns == {"never", "always", "last_action"}
StoppingCriteriaFn(root_embedding) ==
  CASE stopping_criteria_fn = "never" -> FALSE
    [] stopping_criteria_fn = "always" -> TRUE
    [] OTHER -> \E b \in DOMAIN root_embedding :
                  /\ root_embedding[b] > 1
                  /\ root_embedding[b] % NumActions = NumActions - 1

\* ------------------------------------------------------------ the tree
\* One batch element's rows after instantiate_tree_from_root: node 0 is
\* the root, visited once; every other slot is empty.
InstantiateRow ==
  [ node_visits        |-> [n \in Nodes |-> IF n = 0 THEN 1 ELSE 0],
    parents            |-> [n \in Nodes |-> NO_PARENT],
    action_from_parent |-> [n \in Nodes |-> NO_PARENT],
    children_index     |-> [n \in Nodes |-> [a \in Actions |-> UNVISITED]],
    children_visits    |-> [n \in Nodes |-> [a \in Actions |-> 0]],
    embeddings         |-> [n \in Nodes |-> IF n = 0 THEN 1 ELSE 0],
    root_index         |-> 0 ]

instantiate_tree_from_root == [b \in Batch |-> InstantiateRow]

\* The mask the search uses at the root.
InvalidAt(b) ==
  IF invalid_actions = None THEN {} ELSE Value(invalid_actions)[b]

\* ------------------------------------------------- scores and argmax
Max(x, y) == IF x >= y THEN x ELSE y
Min(x, y) == IF x <= y THEN x ELSE y
MaxOf(f) ==
  CHOOSE m \in {f[a] : a \in DOMAIN f} : \A a \in DOMAIN f : f[a] <= m

\* jnp.argmax: the first index of the maximum.
LowestIndex(S) == CHOOSE a \in S : \A c \in S : a <= c
Argmax(f) ==
  LET max_f == MaxOf(f)
  IN  LowestIndex({a \in DOMAIN f : f[a] = max_f})

Sum(visits) ==
  LET RECURSIVE Upto(_)
      Upto(a) == IF a < 0 THEN 0 ELSE visits[a] + Upto(a - 1)
  IN  Upto(NumActions - 1)

\* Logits, noise and values are floats, kept here in fixed point: Unit
\* is 1.0.
Unit == 6

\* jnp.finfo(logits.dtype).min, the logit of an invalid action, and -inf.
MinLogit == -1000
NegInf == -1000000

\* _mask_invalid_actions, one batch element.
MaskInvalidActions(logits, b) ==
  IF invalid_actions = None THEN logits
  ELSE LET max_logit == MaxOf(logits)
       IN  Array([a \in Actions |->
             IF a \in InvalidAt(b) THEN MinLogit ELSE logits[a] - max_logit])

\* The random keys a call can be given, and jax.random.gumbel's sample
\* for action a of batch element b: a function of the key.
Keys == {0, 1}
GumbelNoise(key, b, a) ==
  IF (a + b + key) % NumActions = 0 THEN 2 * Unit ELSE 0

Gumbel_Unscaled(b) == Array([a \in Actions |-> GumbelNoise(rng_key, b, a)])

\* `gumbel = gumbel_scale * jax.random.gumbel(gumbel_rng, ...)`
Gumbel(b) ==
  Array([a \in Actions |-> gumbel_scale * GumbelNoise(rng_key, b, a)])

\* The deterministic model's prior logits and value at an embedding.
RecurrentPriorLogits(embedding) ==
  Array([a \in Actions |-> ((embedding + a) % 2) * Unit])
RecurrentValue(embedding) ==
  IF embedding % 4 = 2 THEN Unit
  ELSE IF embedding % 4 = 0 THEN 0
  ELSE -Unit

\* tree.children_prior_logits of a node: the masked root priors at the
\* initial root, the model's output elsewhere.
ChildrenPriorLogits(row, b, node) ==
  IF Idx(node) = 0 THEN MaskInvalidActions(prior_logits[b], b)
  ELSE RecurrentPriorLogits(row.embeddings[Idx(node)])

\* qtransform: a value per action, the child's for a visited action and
\* the node's own for an unvisited one.
\* The sum of the values backed up through a node: its own value, and
\* through each child that child's mean once per visit of the child.
RECURSIVE NodeValueSum(_, _)
NodeValueSum(row, node) ==
  LET visits == row.children_visits[Idx(node)]
      RECURSIVE Children(_)
      Children(a) ==
        IF a < 0 THEN 0
        ELSE Children(a - 1)
               + (IF visits[a] > 0
                  THEN LET child == row.children_index[Idx(node)][a]
                       IN  (NodeValueSum(row, child) * visits[a])
                             \div row.node_visits[Idx(child)]
                  ELSE 0)
  IN  RecurrentValue(row.embeddings[Idx(node)])
          * (row.node_visits[Idx(node)] - Sum(visits))
        + Children(NumActions - 1)

\* tree.node_values: the mean of the values backed up through a node.
NodeValue(row, node) ==
  NodeValueSum(row, node) \div row.node_visits[Idx(node)]

CompletedQValues(row, node) ==
  Array([a \in Actions |->
    IF row.children_visits[Idx(node)][a] > 0
    THEN NodeValue(row, row.children_index[Idx(node)][a])
    ELSE NodeValue(row, node)])

\* seq_halving: the visit count the considered actions have at each
\* simulation, for m considered actions and n simulations.
CeilLog2(m) == CHOOSE k \in 0 .. m : 2 ^ k >= m /\ (k = 0 \/ 2 ^ (k - 1) < m)

RECURSIVE ConsideredVisitsFrom(_, _, _, _, _)
ConsideredVisitsFrom(seq, visit, num_considered, m, n) ==
  IF Len(seq) >= n THEN SubSeq(seq, 1, n)
  ELSE LET num_extra == Max(1, n \div (CeilLog2(m) * num_considered))
           RECURSIVE Blocks(_)
           Blocks(j) ==
             IF j = num_extra THEN <<>>
             ELSE [i \in 1 .. num_considered |-> visit + j] \o Blocks(j + 1)
       IN  ConsideredVisitsFrom(seq \o Blocks(0), visit + num_extra,
                                Max(2, num_considered \div 2), m, n)

SequenceOfConsideredVisits(m, n) ==
  IF m <= 1 THEN [i \in 1 .. n |-> i - 1]
  ELSE ConsideredVisitsFrom(<<>>, 0, m, m, n)

\* seq_halving.score_considered: gumbel + logits + q for the actions with
\* the considered visit count, -inf for the others.
ScoreConsidered(considered_visit, gumbel, logits, qvalues, visits) ==
  LET max_logit == MaxOf(logits)
  IN  Array([a \in Actions |->
        IF visits[a] = considered_visit
        THEN gumbel[a] + (logits[a] - max_logit) + qvalues[a]
        ELSE NegInf])

\* action_selection.masked_argmax
MaskedArgmax(to_argmax, invalid) ==
  Argmax(Array(
    [a \in Actions |-> IF a \in invalid THEN NegInf ELSE to_argmax[a]]))

\* gumbel_muzero_root_action_selection: Sequential Halving with Gumbel.
GumbelRootActionSelection(row, b, node) ==
  LET visits == row.children_visits[Idx(node)]
      num_considered ==
        Min(max_num_considered_actions, Cardinality(Actions \ InvalidAt(b)))
      considered_visit ==
        SequenceOfConsideredVisits(num_considered, num_simulations)
          [Sum(visits) + 1]
  IN  MaskedArgmax(
        ScoreConsidered(considered_visit, Gumbel(b),
                        ChildrenPriorLogits(row, b, node),
                        CompletedQValues(row, node), visits),
        InvalidAt(b))

\* gumbel_muzero_interior_action_selection: deterministic, no noise.
GumbelInteriorActionSelection(row, b, node) ==
  LET logits == ChildrenPriorLogits(row, b, node)
      qvalues == CompletedQValues(row, node)
  IN  Argmax(Array([a \in Actions |->
        logits[a] + qvalues[a] - row.children_visits[Idx(node)][a]]))

\* The actions an action selection can return at a node.  MuZero's scores
\* are functions of the learned model's outputs, so any action can be the
\* argmax, except that at depth 0 the invalid actions are masked; with
\* every action masked the argmax is the lowest index.  The Gumbel
\* selections are computed from the model of the scores above.
SelectableActions(row, b, node, depth) ==
  IF action_selection_fn = "gumbel"
  THEN IF depth = 0 THEN {GumbelRootActionSelection(row, b, node)}
       ELSE {GumbelInteriorActionSelection(row, b, node)}
  ELSE IF depth # 0 THEN Actions
  ELSE IF Actions \ InvalidAt(b) # {} THEN Actions \ InvalidAt(b)
  ELSE {0}

\* simulate: descend from `node` until an unvisited edge or the depth
\* limit; the set of (parent_index, action) pairs it can end with.
RECURSIVE SimulateFrom(_, _, _, _)
SimulateFrom(row, b, node, depth) ==
  UNION { LET next == row.children_index[Idx(node)][a]
              is_continuing == next # UNVISITED /\ depth + 1 < max_depth
          IN  IF is_continuing
              THEN SimulateFrom(row, b, next, depth + 1)
              ELSE { <<node, a>> }
        : a \in SelectableActions(row, b, node, depth) }

simulate(row, b) == SimulateFrom(row, b, row.root_index, 0)

\* Whether the edge (p, a) has no child yet.
IsNewEdge(row, p, a) == row.children_index[Idx(p)][a] = UNVISITED

\* expand, one batch element: a new edge gets node n, filled from the
\* model's output; an edge cut off at max_depth keeps its child as is.
ExpandRow(row, p, a, n) ==
  IF ~IsNewEdge(row, p, a) THEN row
  ELSE [row EXCEPT
          !.embeddings[Idx(n)] = RecurrentFn(row.embeddings[Idx(p)], a),
          !.node_visits[Idx(n)] = @ + 1,
          !.children_index[Idx(p)][a] = n,
          !.parents[Idx(n)] = p,
          !.action_from_parent[Idx(n)] = a]

IdxA(a) == IF a < 0 THEN a + NumActions ELSE a

\* backward, one batch element: from `index` up to the root, one hop at
\* a time, adding a visit to the parent and to the edge taken.
RECURSIVE BackwardRow(_, _, _)
BackwardRow(row, index, fuel) ==
  IF index = row.root_index \/ fuel = 0 THEN row
  ELSE LET parent == row.parents[Idx(index)]
           a == IdxA(row.action_from_parent[Idx(index)])
       IN  BackwardRow(
             [row EXCEPT !.node_visits[Idx(parent)] = @ + 1,
                         !.children_visits[Idx(parent)][a] = @ + 1],
             parent, fuel - 1)

\* The number of hops of backward's loop, up to fuel.
RECURSIVE BackwardHops(_, _, _)
BackwardHops(row, index, fuel) ==
  IF index = row.root_index \/ fuel = 0 THEN 0
  ELSE 1 + BackwardHops(row, row.parents[Idx(index)], fuel - 1)

BackwardFuel == NumNodes + 1
BackwardTerminates(row, leaf) ==
  BackwardHops(row, leaf, BackwardFuel) < BackwardFuel

\* tree.summary().visit_counts of one batch element: the visits of the
\* root's children.
VisitCounts(row) == row.children_visits[Idx(row.root_index)]

MaxVisit(visits) ==
  CHOOSE m \in {visits[a] : a \in Actions} : \A a \in Actions : visits[a] <= m

SampleSupport_Unscaled(visits) ==
  { a \in Actions : visits[a] = MaxVisit(visits) \/ visits[a] > 0 }

\* The actions jax.random.categorical can return on
\* _apply_temperature(_get_logits_from_probs(visit_probs), temperature).
\* An action with the maximal count has logit 0.  With temperature 0 the
\* division by `tiny` sends every other logit to -inf.  Otherwise a
\* visited action lies a few nats below, within reach of the Gumbel
\* sample, and an unvisited one lies LogTiny / temperature below.
SampleSupport(visits) ==
  { a \in Actions :
      \/ visits[a] = MaxVisit(visits)
      \/ /\ temperature > 0
         /\ \/ visits[a] > 0
            \/ LogTiny < GumbelSpan * temperature }

\* ------------------------------------- muzero_policy_for_action_sequence
\* The masks tried: one set of invalid actions, the same for every batch
\* element, and one that differs between the first element and the rest.
Masks(B) ==
  { [b \in 0 .. B - 1 |-> m] : m \in SUBSET Actions }
  \cup { [b \in 0 .. B - 1 |-> IF b = 0 THEN {0} ELSE {NumActions - 1}] }

\* The arguments of gumbel_muzero_policy are not those of the MuZero
\* policies, whose root priors are noisy logits the model does not follow.
NoGumbel ==
  /\ gumbel_scale = 0
  /\ max_num_considered_actions = 0
  /\ prior_logits = <<>>
  /\ rng_key = 0
  /\ first_output = <<>>

\* Nothing is allocated and nothing has run when a policy is called.
NotStarted ==
  /\ tree = <<>>
  /\ max_depth = 0
  /\ performed_actions = <<>>
  /\ stop_generating = FALSE
  /\ generated_action = 0
  /\ sim = 0
  /\ parent_index = <<>>
  /\ action = <<>>
  /\ next_node_index = <<>>
  /\ recurrent_calls = 0
  /\ stopping_calls = 0
  /\ sim_cycles = 0
  /\ rounds_executed = 0
  /\ prev_root_index = <<>>
  /\ out_action = <<>>
  /\ action_weights = <<>>
  /\ loop_rng_key = <<>>
  /\ sim_rng_key = <<>>
  /\ consumed_keys = {}
  /\ reused_keys = {}

\* One call of one round more than MaxActionsToGenerate, with one
\* simulation a round and a temperature at which an unvisited action can
\* be drawn.
LongCall ==
  /\ batch_size = 1
  /\ num_simulations = 1
  /\ num_actions_to_generate = MaxActionsToGenerate + 1
  /\ invalid_actions = None
  /\ max_depth_arg = None
  /\ temperature = 100
  /\ stopping_criteria_fn = "never"

Init ==
  /\ pc = "start"
  /\ batch_size \in 1 .. MaxBatch
  /\ num_simulations \in 0 .. MaxSimulations
  /\ num_actions_to_generate \in 1 .. MaxActionsToGenerate + 1
  /\ invalid_actions \in {None} \cup {Some(m) : m \in Masks(batch_size)}
  /\ max_depth_arg \in {None} \cup {Some(d) : d \in -1 .. MaxDepthArg}
  /\ temperature \in Temperatures
  /\ stopping_criteria_fn \in StoppingFns
  /\ \/ /\ num_actions_to_generate <= MaxActionsToGenerate
        /\ batch_size * num_simulations * num_actions_to_generate
             <= MaxTreeWork
     \/ LongCall
  /\ action_selection_fn = "muzero"
  /\ NoGumbel
  /\ NotStarted

InvalidActionsUnsupported_Dropped == FALSE

\* `if invalid_actions is not None: raise NotImplementedError`
InvalidActionsUnsupported == invalid_actions # None

BatchSizeUnsupported_Checked == batch_size > 1

\* The check of batch_size > 1 is commented out: no batch size is refused.
BatchSizeUnsupported == FALSE

RaiseNotImplementedError ==
  /\ pc = "start"
  /\ InvalidActionsUnsupported \/ BatchSizeUnsupported
  /\ pc' = "raised"
  /\ UNCHANGED <<args, tree, loop, sim, locals, counters, output, calls, keys>>

DefaultMaxDepth_PerSearch ==
  IF max_depth_arg = None THEN num_simulations ELSE Value(max_depth_arg)

\* `if max_depth is None: max_depth = num_simulations * num_actions_to_generate`
DefaultMaxDepth ==
  IF max_depth_arg = None
  THEN num_simulations * num_actions_to_generate
  ELSE Value(max_depth_arg)

\* The split of the key, the Dirichlet noise drawn with
\* dirichlet_rng_key, the action selection functions, the tree and
\* performed_actions.  The loop starts with rng_key, the first of the
\* three keys; search_rng_key is not used.
Setup ==
  /\ pc = "start"
  /\ ~(InvalidActionsUnsupported \/ BatchSizeUnsupported)
  /\ max_depth' = DefaultMaxDepth
  /\ tree' = instantiate_tree_from_root
  /\ performed_actions' =
       [b \in Batch |-> [k \in 0 .. num_actions_to_generate - 1 |-> UNFILLED]]
  /\ stop_generating' = FALSE
  /\ generated_action' = 0
  /\ loop_rng_key' = Split(CallerKey, 0)
  /\ UseKeys(<<CallerKey, Split(CallerKey, 1)>>)
  /\ pc' = "wrapper"
  /\ UNCHANGED <<args, sim, locals, counters, output, calls, sim_rng_key>>

StopGeneratingOrMaxDepthZero_NoFlag == max_depth = 0

\* generate_next_action_stopping_wrapper's condition.
StopGeneratingOrMaxDepthZero == stop_generating \/ max_depth = 0

\* The wrapper returns the loop state as it is.
SkipRound ==
  /\ pc = "wrapper"
  /\ generated_action < num_actions_to_generate
  /\ StopGeneratingOrMaxDepthZero
  /\ generated_action' = generated_action + 1
  /\ UNCHANGED <<pc, args, tree, max_depth, performed_actions,
                 stop_generating, sim, locals, counters, output, calls, keys>>

InnerLower_Unscaled == generated_action
InnerUpper_OneLess == (generated_action + 1) * num_simulations - 1

\* The bounds of generate_next_action's inner fori_loop.
InnerLower == generated_action * num_simulations
InnerUpper == (generated_action + 1) * num_simulations

\* The wrapper calls generate_next_action, whose inner loop starts.
StartRound ==
  /\ pc = "wrapper"
  /\ generated_action < num_actions_to_generate
  /\ ~StopGeneratingOrMaxDepthZero
  /\ sim' = InnerLower
  /\ sim_rng_key' = loop_rng_key
  /\ pc' = "inner"
  /\ UNCHANGED <<args, tree, loop, locals, counters, output, calls,
                 loop_rng_key, consumed_keys, reused_keys>>

NextNodeIndex_AlwaysNew(row, p, a) == sim + 1

\* The node of the edge simulate ended on: its child, or a new node
\* numbered by the simulation counter.
NextNodeIndex(row, p, a) ==
  IF row.children_index[Idx(p)][a] = UNVISITED
  THEN sim + 1
  ELSE row.children_index[Idx(p)][a]

\* `rng_key, simulate_key, expand_key = jax.random.split(rng_key, 3)`
SimulateKey(key) == Split(key, 1)
ExpandKey(key) == Split(key, 2)

\* generate_next_action_inner up to the call of expand: the key is
\* split, simulate_key is split into one key per batch element, and
\* simulate draws from each of those.
Simulate ==
  /\ pc = "inner"
  /\ sim < InnerUpper
  /\ LET ends == Array([b \in Batch |-> simulate(tree[b], b)])
     IN
     \E end \in [Batch -> UNION {ends[b] : b \in Batch}] :
       /\ \A b \in Batch : end[b] \in ends[b]
       /\ parent_index' = [b \in Batch |-> end[b][1]]
       /\ action' = [b \in Batch |-> end[b][2]]
       /\ next_node_index' =
            [b \in Batch |-> NextNodeIndex(tree[b], end[b][1], end[b][2])]
  /\ sim_rng_key' = Split(sim_rng_key, 0)
  /\ UseKeys(<<sim_rng_key, SimulateKey(sim_rng_key)>>
               \o [b \in 1 .. batch_size |->
                    Split(SimulateKey(sim_rng_key), b - 1)])
  /\ pc' = "expand"
  /\ UNCHANGED <<args, tree, loop, sim, counters, output, calls,
                 loop_rng_key>>

Expand ==
  /\ pc = "expand"
  /\ tree' = [b \in Batch |->
       ExpandRow(tree[b], parent_index[b], action[b], next_node_index[b])]
  /\ recurrent_calls' =
       IF \E b \in Batch : IsNewEdge(tree[b], parent_index[b], action[b])
       THEN recurrent_calls + 1 ELSE recurrent_calls
  /\ UseKeys(<<ExpandKey(Parent(sim_rng_key))>>)
  /\ pc' = "backward"
  /\ UNCHANGED <<args, loop, sim, locals, stopping_calls, sim_cycles,
                 rounds_executed, prev_root_index, output, calls,
                 loop_rng_key, sim_rng_key>>

Backward ==
  /\ pc = "backward"
  /\ IF \A b \in Batch : BackwardTerminates(tree[b], next_node_index[b])
     THEN /\ tree' = [b \in Batch |->
                 BackwardRow(tree[b], next_node_index[b], BackwardFuel)]
          /\ sim' = sim + 1
          /\ sim_cycles' = sim_cycles + 1
          /\ pc' = "inner"
     ELSE /\ pc' = "diverged"
          /\ UNCHANGED <<tree, sim, sim_cycles>>
  /\ UNCHANGED <<args, loop, locals, recurrent_calls, stopping_calls,
                 rounds_executed, prev_root_index, output, calls, keys>>

\* The child of the root under the action: the new root.
NewRootIndex(row, a) == row.children_index[Idx(row.root_index)][a]

ReRoot_KeepParent(row, a) == [row EXCEPT !.root_index = NewRootIndex(row, a)]

ReRoot_ClearVisits(row, a) ==
  [row EXCEPT !.root_index = NewRootIndex(row, a),
              !.parents[Idx(NewRootIndex(row, a))] = NO_PARENT,
              !.node_visits[Idx(NewRootIndex(row, a))] = 1]

\* tree.replace(root_index=..., parents=batch_update(..., NO_PARENT, ...))
ReRoot(row, a) ==
  [row EXCEPT !.root_index = NewRootIndex(row, a),
              !.parents[Idx(NewRootIndex(row, a))] = NO_PARENT]

RecordAction_First(performed, act) ==
  [b \in Batch |-> [performed[b] EXCEPT ![0] = act[b]]]

\* `performed_actions = performed_actions.at[:, generated_action].set(action)`
RecordAction(performed, act) ==
  [b \in Batch |-> [performed[b] EXCEPT ![generated_action] = act[b]]]

RootEmbedding_InitialRoot(t) == [b \in Batch |-> t[b].embeddings[0]]

\* `root_embedding = jax.tree_map(lambda x: x[batch_range, tree.root_index],
\* tree.embeddings)`
RootEmbedding(t) == [b \in Batch |-> t[b].embeddings[Idx(t[b].root_index)]]

NextMaxDepth_Kept == max_depth

\* `loop_state = rng_key, tree, max_depth - 1, ...`
NextMaxDepth == max_depth - 1

\* generate_next_action after its simulations: sample the action, move
\* the root, record the action, ask the stopping predicate.
GenerateAction ==
  /\ pc = "inner"
  /\ sim = InnerUpper
  /\ \E act \in [Batch -> Actions] :
       /\ \A b \in Batch : act[b] \in SampleSupport(VisitCounts(tree[b]))
       /\ tree' = [b \in Batch |-> ReRoot(tree[b], act[b])]
       /\ performed_actions' = RecordAction(performed_actions, act)
  /\ stop_generating' = StoppingCriteriaFn(RootEmbedding(tree'))
  /\ prev_root_index' = [b \in Batch |-> tree[b].root_index]
  /\ max_depth' = NextMaxDepth
  /\ generated_action' = generated_action + 1
  /\ stopping_calls' = stopping_calls + 1
  /\ rounds_executed' = rounds_executed + 1
  /\ UseKeys(<<loop_rng_key>>)
  /\ pc' = "wrapper"
  /\ UNCHANGED <<args, sim, locals, recurrent_calls, sim_cycles, output, calls,
                 loop_rng_key, sim_rng_key>>

\* The outer fori_loop is over: PolicyOutput(performed_actions, tree).
Return ==
  /\ pc = "wrapper"
  /\ generated_action = num_actions_to_generate
  /\ pc' = "done"
  /\ UNCHANGED <<args, tree, loop, sim, locals, counters, output, calls, keys>>

Next ==
  \/ RaiseNotImplementedError
  \/ Setup
  \/ SkipRound
  \/ StartRound
  \/ Simulate
  \/ Expand
  \/ Backward
  \/ GenerateAction
  \/ Return

Spec == Init /\ [][Next]_vars

\* --------------------------------------------------------- muzero_policy
\* The one-action policies search once: the tree has num_simulations + 1
\* nodes and the loop of search.search is the inner loop of round 0.
InitMuzero ==
  /\ pc = "start"
  /\ batch_size \in 1 .. MaxBatch
  /\ num_simulations \in 0 .. MaxSimulations
  /\ num_actions_to_generate = 1
  /\ batch_size * num_simulations <= MaxTreeWork
  /\ invalid_actions \in {None} \cup {Some(m) : m \in Masks(batch_size)}
  /\ max_depth_arg \in {None} \cup {Some(d) : d \in 0 .. MaxDepthArg}
  /\ temperature \in Temperatures
  /\ stopping_criteria_fn = "never"
  /\ action_selection_fn = "muzero"
  /\ NoGumbel
  /\ NotStarted

\* search.search's depth limit: max_depth, or num_simulations when unset.
SearchMaxDepth ==
  IF max_depth_arg = None THEN num_simulations ELSE Value(max_depth_arg)

\* muzero_policy up to the loop of search.search: the noise, the masked
\* root priors and the tree.
MuzeroSearch ==
  /\ pc = "start"
  /\ max_depth' = SearchMaxDepth
  /\ tree' = instantiate_tree_from_root
  /\ sim' = 0
  /\ loop_rng_key' = Split(CallerKey, 0)
  /\ sim_rng_key' = Split(CallerKey, 2)
  /\ UseKeys(<<CallerKey, Split(CallerKey, 1)>>)
  /\ pc' = "inner"
  /\ UNCHANGED <<args, performed_actions, stop_generating, generated_action,
                 locals, counters, output, calls>>

\* tree.summary().visit_probs of one batch element: each root child's
\* visits over the total (over 1 when nothing was visited), as a pair.
VisitProbs(row) ==
  LET visits == VisitCounts(row)
      total == IF Sum(visits) = 0 THEN 1 ELSE Sum(visits)
  IN  [a \in Actions |-> <<visits[a], total>>]

\* `action = jax.random.categorical(rng_key, action_logits)`, with the
\* logits of the visit probabilities scaled by the temperature.
MuzeroSample ==
  /\ pc = "inner"
  /\ sim = InnerUpper
  /\ action_weights' = [b \in Batch |-> VisitProbs(tree[b])]
  /\ out_action' \in [Batch -> Actions]
  /\ \A b \in Batch : out_action'[b] \in SampleSupport(VisitCounts(tree[b]))
  /\ UseKeys(<<loop_rng_key>>)
  /\ pc' = "done"
  /\ UNCHANGED <<args, tree, loop, sim, locals, counters, calls,
                 loop_rng_key, sim_rng_key>>

NextMuzero ==
  \/ MuzeroSearch
  \/ Simulate
  \/ Expand
  \/ Backward
  \/ MuzeroSample

SpecMuzero == InitMuzero /\ [][NextMuzero]_vars

\* -------------------------------------------------- gumbel_muzero_policy
\* The root priors tried, the same for every batch element up to a shift.
PriorPatterns ==
  { [b \in 0 .. MaxBatch - 1 |-> [a \in Actions |-> 0]],
    [b \in 0 .. MaxBatch - 1 |-> [a \in Actions |-> ((a + b) % 2) * Unit]],
    [b \in 0 .. MaxBatch - 1 |->
       [a \in Actions |-> ((a + b + 1) % 2) * Unit]] }

InitGumbel ==
  /\ pc = "start"
  /\ batch_size \in 1 .. MaxBatch
  /\ num_simulations \in 0 .. MaxSimulations
  /\ num_actions_to_generate = 1
  /\ batch_size * num_simulations <= MaxTreeWork
  /\ invalid_actions \in {None} \cup {Some(m) : m \in Masks(batch_size)}
  /\ max_depth_arg \in {None} \cup {Some(d) : d \in 1 .. MaxDepthArg}
  /\ temperature = 0
  /\ stopping_criteria_fn = "never"
  /\ action_selection_fn = "gumbel"
  /\ gumbel_scale \in {0, 1}
  /\ max_num_considered_actions \in 1 .. NumActions
  /\ prior_logits \in PriorPatterns
  /\ rng_key \in Keys
  /\ first_output = <<>>
  /\ NotStarted

\* gumbel_muzero_policy up to the loop of search.search: the masked root
\* priors, the Gumbel noise and the tree.
GumbelSearch ==
  /\ pc = "start"
  /\ max_depth' = SearchMaxDepth
  /\ tree' = instantiate_tree_from_root
  /\ sim' = 0
  /\ loop_rng_key' = Split(CallerKey, 0)
  /\ sim_rng_key' = Split(CallerKey, 0)
  /\ UseKeys(<<CallerKey, Split(CallerKey, 1)>>)
  /\ pc' = "inner"
  /\ UNCHANGED <<args, performed_actions, stop_generating, generated_action,
                 locals, counters, output, calls>>

ConsideredVisit_Min(row) ==
  CHOOSE m \in {VisitCounts(row)[a] : a \in Actions} :
    \A a \in Actions : m <= VisitCounts(row)[a]

\* `considered_visit = jnp.max(summary.visit_counts, axis=-1, ...)`
ConsideredVisit(row) == MaxOf(VisitCounts(row))

\* The action of gumbel_muzero_policy: the best of the most visited.
GumbelAction(row, b) ==
  MaskedArgmax(
    ScoreConsidered(ConsideredVisit(row), Gumbel(b),
                    MaskInvalidActions(prior_logits[b], b),
                    CompletedQValues(row, 0), VisitCounts(row)),
    InvalidAt(b))

\* jax.nn.softmax with powers of two for the exponentials: the weight of
\* an action and the total, a logit far below the maximum weighing 0.
SoftmaxRange == 20
Softmax(logits) ==
  LET max_logit == MaxOf(logits)
      weight == Array([a \in Actions |->
        IF logits[a] - max_logit < -SoftmaxRange THEN 0
        ELSE 2 ^ (SoftmaxRange + logits[a] - max_logit)])
      total == Sum(weight)
  IN  [a \in Actions |-> <<weight[a], total>>]

\* `softmax(_mask_invalid_actions(prior_logits + completed_qvalues, ...))`
GumbelActionWeights(row, b) ==
  LET logits == MaskInvalidActions(prior_logits[b], b)
      qvalues == CompletedQValues(row, 0)
  IN  Softmax(MaskInvalidActions(
        Array([a \in Actions |-> logits[a] + qvalues[a]]), b))

GumbelAct ==
  /\ pc = "inner"
  /\ sim = InnerUpper
  /\ out_action' = [b \in Batch |-> GumbelAction(tree[b], b)]
  /\ action_weights' = [b \in Batch |-> GumbelActionWeights(tree[b], b)]
  /\ pc' = "done"
  /\ UNCHANGED <<args, tree, loop, sim, locals, counters, calls, keys>>

\* The caller keeps the PolicyOutput and calls the policy again with the
\* same arguments and another random key.
CallAgain ==
  /\ pc = "done"
  /\ first_output = <<>>
  /\ first_output' = [action |-> out_action,
                      action_weights |-> action_weights,
                      search_tree |-> tree]
  /\ rng_key' \in Keys \ {rng_key}
  /\ pc' = "start"
  /\ tree' = <<>>
  /\ max_depth' = 0
  /\ performed_actions' = <<>>
  /\ stop_generating' = FALSE
  /\ generated_action' = 0
  /\ sim' = 0
  /\ parent_index' = <<>>
  /\ action' = <<>>
  /\ next_node_index' = <<>>
  /\ recurrent_calls' = 0
  /\ stopping_calls' = 0
  /\ sim_cycles' = 0
  /\ rounds_executed' = 0
  /\ prev_root_index' = <<>>
  /\ out_action' = <<>>
  /\ action_weights' = <<>>
  /\ loop_rng_key' = <<>>
  /\ sim_rng_key' = <<>>
  /\ consumed_keys' = {}
  /\ reused_keys' = {}
  /\ UNCHANGED args

NextGumbel ==
  \/ GumbelSearch
  \/ Simulate
  \/ Expand
  \/ Backward
  \/ GumbelAct
  \/ CallAgain

SpecGumbel == InitGumbel /\ [][NextGumbel]_vars

\* ----------------------------------------------------------------------
\* The number of rounds a call executes when the stopping predicate never
\* holds: the depth limit loses one per round and a round at limit 0 is
\* skipped (a negative limit never reaches 0).
RoundsWithinDepth ==
  IF DefaultMaxDepth < 0 \/ DefaultMaxDepth >= num_actions_to_generate
  THEN num_actions_to_generate
  ELSE DefaultMaxDepth

\* The visits of the children of the root the latest round started from.
PrevRootVisits(b) == tree[b].children_visits[Idx(prev_root_index[b])]

\* A round has just been executed: its action is the latest one written.
RoundJustExecuted ==
  pc = "wrapper" /\ rounds_executed > 0 /\ generated_action = rounds_executed

\* C1: a call with invalid_actions given ends in NotImplementedError, and
\* at that point no tree is allocated, no simulation cycle has run and
\* neither recurrent_fn nor stopping_criteria_fn has been called.
C1_InvalidActionsRaiseFirst ==
  (invalid_actions # None /\ pc # "start") =>
    /\ pc = "raised"
    /\ tree = <<>>
    /\ sim_cycles = 0 /\ rounds_executed = 0
    /\ recurrent_calls = 0 /\ stopping_calls = 0

C1_Witness ==
  /\ pc = "raised" /\ invalid_actions # None
  /\ batch_size = 1 /\ num_simulations = 2 /\ num_actions_to_generate = 2

\* C2 as claimed: a call with batch_size > 1 is refused before any
\* simulation runs.
C2_BatchLargerThanOneRefused ==
  (batch_size > 1 /\ pc # "start") => (pc = "raised" /\ sim_cycles = 0)

\* C2 as amended: a call with batch_size > 1 and no invalid_actions is not
\* refused; the tree is allocated for every batch element and the search
\* proceeds.
C2_BatchLargerThanOneAccepted ==
  (batch_size > 1 /\ invalid_actions = None /\ pc # "start") =>
    /\ pc # "raised"
    /\ DOMAIN tree = Batch

C2_Witness ==
  /\ pc = "done" /\ batch_size = 2 /\ invalid_actions = None
  /\ sim_cycles > 0 /\ rounds_executed > 0

\* C3, the counts: no simulation cycle hangs, at most
\* num_actions_to_generate rounds are executed, and an executed round runs
\* exactly num_simulations cycles, so that outside a round the cycles are
\* num_simulations times the executed rounds.
C3_CycleCount ==
  /\ pc # "diverged"
  /\ rounds_executed <= num_actions_to_generate
  /\ pc \in {"wrapper", "done"} =>
       sim_cycles = num_simulations * rounds_executed
  /\ pc \in {"inner", "expand", "backward"} =>
       /\ InnerLower <= sim /\ sim <= InnerUpper
       /\ sim_cycles = num_simulations * rounds_executed + (sim - InnerLower)

\* An upper bound of the steps a call has left: a round is its start, three
\* steps per simulation cycle and the generation of its action.
StepsPerRound == 3 * num_simulations + 2
StepsLeft ==
  CASE pc = "start" -> num_actions_to_generate * StepsPerRound + 2
    [] pc = "wrapper" ->
         (num_actions_to_generate - generated_action) * StepsPerRound + 1
    [] pc \in {"inner", "expand", "backward"} ->
         (num_actions_to_generate - generated_action - 1) * StepsPerRound + 2
         + 3 * (InnerUpper - sim)
         - (IF pc = "expand" THEN 1 ELSE IF pc = "backward" THEN 2 ELSE 0)
    [] OTHER -> 0

\* C3: every call without invalid_actions terminates and returns: every
\* step lowers a bound of the steps left, until the call has returned it
\* has a next step, and the counts are as above.
C3_TerminatesWithExactCycles ==
  /\ []C3_CycleCount
  /\ [][StepsLeft' < StepsLeft /\ StepsLeft' >= 0]_vars
  /\ []((invalid_actions = None /\ pc # "done") => ENABLED Next)

C3_Witness ==
  /\ pc = "done" /\ batch_size = 2
  /\ num_simulations = 1 /\ num_actions_to_generate = 2
  /\ rounds_executed = 2 /\ sim_cycles = 2

\* C4: once stop_generating is true, no step changes the tree or the
\* performed actions, runs a simulation cycle or a round, or clears it.
C4_StopIsFinal ==
  [][stop_generating =>
       /\ stop_generating'
       /\ tree' = tree
       /\ performed_actions' = performed_actions
       /\ sim_cycles' = sim_cycles
       /\ rounds_executed' = rounds_executed
       /\ recurrent_calls' = recurrent_calls
       /\ stopping_calls' = stopping_calls]_vars

\* A round was skipped because of the flag, not of the depth limit.
C4_Witness ==
  /\ stop_generating /\ max_depth > 0 /\ num_simulations > 0
  /\ generated_action = 2 /\ rounds_executed = 1

C6_MostVisitedChildTaken ==
  RoundJustExecuted =>
    \A b \in Batch :
      PrevRootVisits(b)[performed_actions[b][rounds_executed - 1]]
        = MaxVisit(PrevRootVisits(b))

\* The actions with the maximal visit count at the root.
MostVisited(b) ==
  { a \in Actions : VisitCounts(tree[b])[a] = MaxVisit(VisitCounts(tree[b])) }

SomeValidAction ==
  /\ invalid_actions # None
  /\ \A b \in Batch : Actions \ InvalidAt(b) # {}

\* C8 as claimed: with a mask leaving a valid action to every batch
\* element, an invalid action has action weight 0 and is never the action
\* muzero_policy returns.
C8_InvalidNeverSampled ==
  (pc = "done" /\ SomeValidAction) =>
    \A b \in Batch : \A a \in InvalidAt(b) :
      /\ action_weights[b][a][1] = 0
      /\ out_action[b] # a

\* ----------------------------------------------------------------------
\* gumbel + prior_logit + completed_Q of an action at the root, as the
\* Gumbel policy returns.
GumbelScore(b, a) ==
  Gumbel(b)[a] + MaskInvalidActions(prior_logits[b], b)[a]
    + CompletedQValues(tree[b], 0)[a]

\* The valid actions whose root visit count is the maximum one.
MostVisitedValid(b) ==
  { a \in Actions \ InvalidAt(b) :
      \A c \in Actions : VisitCounts(tree[b])[c] <= VisitCounts(tree[b])[a] }

\* C9: the Gumbel policy's final action is a valid action with the
\* maximum root visit count and, among those, one with the highest
\* gumbel + prior_logit + completed_Q; it is a function of the scores, so
\* an invalid or a less visited action is never returned while a valid
\* action exists.
C9_BestOfMostVisited ==
  (action_selection_fn = "gumbel" /\ pc = "done") =>
    \A b \in Batch :
      Actions \ InvalidAt(b) # {} =>
        /\ out_action[b] \in MostVisitedValid(b)
        /\ \A c \in MostVisitedValid(b) :
             GumbelScore(b, c) <= GumbelScore(b, out_action[b])

\* C9 happens: the search has ended with a valid action that sampling
\* from the visit counts could return, visited less than the returned
\* one and of a higher score.
C9_Witness ==
  /\ action_selection_fn = "gumbel"
  /\ pc = "done"
  /\ \E b \in Batch : \E c \in Actions \ InvalidAt(b) :
       /\ VisitCounts(tree[b])[c] > 0
       /\ VisitCounts(tree[b])[c] < VisitCounts(tree[b])[out_action[b]]
       /\ GumbelScore(b, c) > GumbelScore(b, out_action[b])

\* The valid actions Sequential Halving considers at the root in the
\* next simulation.
ConsideredAtRoot(b) ==
  LET visits == VisitCounts(tree[b])
      num_considered ==
        Min(max_num_considered_actions, Cardinality(Actions \ InvalidAt(b)))
  IN  { a \in Actions \ InvalidAt(b) :
          visits[a] = SequenceOfConsideredVisits(
                        num_considered, num_simulations)[Sum(visits) + 1] }

PriorPlusQ(b, a) ==
  MaskInvalidActions(prior_logits[b], b)[a] + CompletedQValues(tree[b], 0)[a]

\* C10: with gumbel_scale 0 and a deterministic model, a second call
\* with another random key returns the action, the action_weights and the
\* search tree of the first call, and every root selection takes the
\* first of the considered actions with the highest
\* prior_logit + completed_Q.
C10_KeyIndependent ==
  (action_selection_fn = "gumbel" /\ gumbel_scale = 0) =>
    /\ (pc = "done" /\ first_output # <<>>) =>
         /\ out_action = first_output.action
         /\ action_weights = first_output.action_weights
         /\ tree = first_output.search_tree
    /\ (pc = "expand") =>
         \A b \in Batch :
           (parent_index[b] = 0 /\ ConsideredAtRoot(b) # {}) =>
             /\ action[b] \in ConsideredAtRoot(b)
             /\ \A c \in ConsideredAtRoot(b) :
                  \/ PriorPlusQ(b, c) < PriorPlusQ(b, action[b])
                  \/ PriorPlusQ(b, c) = PriorPlusQ(b, action[b])
                       /\ action[b] <= c

\* C10 happens: the second call, made with another key and so with
\* another Gumbel sample, has ended after a search of several
\* simulations.
C10_Witness ==
  /\ action_selection_fn = "gumbel"
  /\ gumbel_scale = 0
  /\ pc = "done"
  /\ first_output # <<>>
  /\ num_simulations >= 2
  /\ \E b \in Batch : \E a \in Actions :
       GumbelNoise(rng_key, b, a) # GumbelNoise(1 - rng_key, b, a)
  /\ \E b \in Batch : Cardinality(Actions \ InvalidAt(b)) >= 2

\* ----------------------------------------------------------------------
\* C11: within one policy call no random key is used by more than one
\* operation, a split or a draw.
C11_KeysUsedOnce == reused_keys = {}

\* ----------------------------------------------------------------------
\* No simulation cycle is under way: the cycles so far are completed.
BetweenCycles == tree # <<>> /\ pc \in {"inner", "wrapper", "done"}

\* The nodes of batch element b that have been reached: those with a
\* visit, and the current root.
Reached(b) ==
  {n \in Nodes : tree[b].node_visits[n] > 0} \cup {Idx(tree[b].root_index)}

\* C12: after any number of completed simulation cycles every reached
\* node, the current root included, has
\* node_visits = 1 + the sum of its children_visits.
C12_VisitConservation ==
  BetweenCycles =>
    \A b \in Batch : \A n \in Reached(b) :
      tree[b].node_visits[n] = 1 + Sum(tree[b].children_visits[n])

\* ----------------------------------------------------------------------
\* Slot n of batch element b holds nothing: no visit, no child, and it is
\* not the slot of the current root.
EmptySlot(b, n) ==
  /\ tree[b].node_visits[n] = 0
  /\ \A a \in Actions : tree[b].children_index[n][a] = UNVISITED
  /\ \A a \in Actions : tree[b].children_visits[n][a] = 0
  /\ Idx(tree[b].root_index) # n

\* The index a new edge gets is the simulation counter plus one.
AllocatedAtCounter ==
  pc = "expand" =>
    \A b \in Batch :
      IsNewEdge(tree[b], parent_index[b], action[b]) =>
        next_node_index[b] = sim + 1

\* The index a new edge gets lies within the capacity of the tree.
AllocatedWithinCapacity ==
  pc = "expand" =>
    \A b \in Batch :
      IsNewEdge(tree[b], parent_index[b], action[b]) =>
        next_node_index[b] \in 1 .. NumNodes - 1

\* The slot a new edge gets holds nothing yet.
AllocatedSlotEmpty ==
  pc = "expand" =>
    \A b \in Batch :
      (/\ IsNewEdge(tree[b], parent_index[b], action[b])
       /\ next_node_index[b] \in Nodes) =>
        EmptySlot(b, next_node_index[b])

\* C13: a newly expanded edge gets the node index sim + 1 of the counter
\* that runs across all rounds, the index lies within the capacity
\* 1 + num_actions_to_generate * num_simulations, and the slot it names
\* was given to no earlier simulation and holds no populated node.
C13_FreshNodeIndex ==
  AllocatedAtCounter /\ AllocatedWithinCapacity /\ AllocatedSlotEmpty

\* ----------------------------------------------------------------------
\* C14: after a standard search of num_simulations simulations the root
\* of every batch element has 1 + num_simulations visits.
C14_RootVisits ==
  pc = "done" =>
    \A b \in Batch :
      tree[b].node_visits[Idx(tree[b].root_index)] = 1 + num_simulations

\* C14 happens: a search of several simulations of a batch has ended,
\* one of them cut off at the depth limit on an edge that has a child.
C14_Witness ==
  /\ pc = "done"
  /\ batch_size > 1
  /\ num_simulations > 1
  /\ recurrent_calls < num_simulations

\* ----------------------------------------------------------------------
\* C15: a simulation descends only when no other is under way, expands
\* right after its descent and goes backward right after its expansion,
\* which ends it; and the action of a round is chosen, and the tree
\* re-rooted, only when all simulations of that round have ended.
C15_SimulationsInSequence ==
  [][/\ pc' = "expand" =>
          pc = "inner" /\ tree' = tree /\ sim' = sim
     /\ pc = "expand" =>
          pc' = "backward" /\ sim' = sim /\ sim_cycles' = sim_cycles
     /\ pc = "backward" =>
          pc' = "inner" /\ sim' = sim + 1 /\ sim_cycles' = sim_cycles + 1
     /\ sim_cycles' # sim_cycles => pc = "backward"
     /\ rounds_executed' # rounds_executed =>
          /\ pc = "inner"
          /\ sim_cycles = (rounds_executed + 1) * num_simulations
          /\ rounds_executed' = rounds_executed + 1
     /\ (tree # <<>> /\ tree' # <<>>
           /\ \E b \in Batch : tree'[b].root_index # tree[b].root_index) =>
          rounds_executed' = rounds_executed + 1
    ]_vars

\* C15 happens: in the second round a simulation that is not the round's
\* first is under way.
C15_Witness ==
  /\ pc = "backward"
  /\ rounds_executed = 1
  /\ sim > InnerLower

\* ----------------------------------------------------------------------
\* Batch element b's descent was cut off at the depth limit on an edge
\* whose child exists.
Truncated(b) == ~IsNewEdge(tree[b], parent_index[b], action[b])

\* The same once expand has run: a new edge has the node sim + 1, a
\* child that exists was allocated by an earlier simulation.
WasTruncated(b) == next_node_index[b] # sim + 1

C17_ReRootFrame ==
  [][rounds_executed' # rounds_executed =>
       \A b \in Batch :
         LET new_root == tree'[b].root_index
         IN  /\ new_root =
                  tree[b].children_index[Idx(tree[b].root_index)]
                                        [performed_actions'[b][generated_action]]
             /\ tree'[b].parents[Idx(new_root)] = NO_PARENT
             /\ \A n \in Nodes \ {Idx(new_root)} :
                  tree'[b].parents[n] = tree[b].parents[n]
             /\ tree'[b].node_visits = tree[b].node_visits
             /\ tree'[b].children_index = tree[b].children_index
             /\ tree'[b].children_visits = tree[b].children_visits
             /\ tree'[b].action_from_parent = tree[b].action_from_parent
             /\ tree'[b].embeddings = tree[b].embeddings
    ]_vars

\* C17 happens: the tree was re-rooted at a node that had a parent and
\* has a visited child of its own.
C17_Witness ==
  /\ pc = "wrapper"
  /\ rounds_executed > 0
  /\ \E b \in Batch :
       /\ tree[b].root_index > 0
       /\ tree[b].parents[tree[b].root_index] = NO_PARENT
       /\ tree[b].node_visits[tree[b].root_index] > 1
       /\ tree[b].children_index[prev_root_index[b]]
                                 [performed_actions[b][generated_action - 1]]
            = tree[b].root_index

\* ----------------------------------------------------------------------
\* The slots of the children of slot n.
ChildSlots(row, n) ==
  { Idx(row.children_index[n][a]) :
      a \in {c \in Actions : row.children_index[n][c] # UNVISITED} }

\* The slots reachable from the slots S along children_index.
RECURSIVE Closure(_, _)
Closure(row, S) ==
  LET next == S \cup UNION {ChildSlots(row, n) : n \in S}
  IN  IF next = S THEN S ELSE Closure(row, next)

\* The current root of batch element b and its descendants, and the
\* populated slots that are neither: the former roots and their other
\* subtrees.
UnderRoot(b) == Closure(tree[b], {Idx(tree[b].root_index)})
OutsideRoot(b) == {n \in Nodes : tree[b].node_visits[n] > 0} \ UnderRoot(b)

\* C18: once the tree is re-rooted, every simulation descends within the
\* current root's subtree and is backed up to the current root and no
\* further: the visit counts and the contents of the former roots and
\* of their other subtrees are not modified again, whatever the depths
\* at which the batch elements expand.
C18_OldSubtreesUntouched ==
  [][(tree # <<>> /\ tree' # <<>> /\ rounds_executed > 0) =>
       \A b \in Batch :
         /\ \A n \in OutsideRoot(b) :
              /\ tree'[b].node_visits[n] = tree[b].node_visits[n]
              /\ tree'[b].children_visits[n] = tree[b].children_visits[n]
              /\ tree'[b].children_index[n] = tree[b].children_index[n]
              /\ tree'[b].embeddings[n] = tree[b].embeddings[n]
         /\ pc' = "expand" => Idx(parent_index'[b]) \in UnderRoot(b)
         /\ (pc = "backward" /\ pc' = "inner") =>
              tree'[b].node_visits[Idx(tree[b].root_index)] =
                tree[b].node_visits[Idx(tree[b].root_index)] + 1
    ]_vars

\* ----------------------------------------------------------------------
\* The populated slots of a tree.
Populated(row) == {n \in Nodes : row.node_visits[n] > 0}

\* Node n is the child its parents and action_from_parent entries name.
LinkedToParent(row, n) ==
  /\ row.action_from_parent[n] \in Actions
  /\ row.children_index[Idx(row.parents[n])][row.action_from_parent[n]] = n

\* C19 as claimed: every populated node other than the current root has
\* a parent that is not NO_PARENT and an action_from_parent, and is the
\* child children_index names for them.
C19_OneParentEach ==
  tree # <<>> =>
    \A b \in Batch :
      \A n \in Populated(tree[b]) \ {Idx(tree[b].root_index)} :
        tree[b].parents[n] # NO_PARENT /\ LinkedToParent(tree[b], n)

\* C19 as amended: every populated node whose parents entry is not
\* NO_PARENT is the child that children_index names for its parent and
\* action_from_parent, after every step; and a re-rooting leaves the
\* new root without a parent, so the initial root and every former root
\* stay populated nodes without one.
C19_ParentLinks ==
  [][/\ tree' # <<>> =>
          \A b \in Batch :
            \A n \in Populated(tree'[b]) :
              tree'[b].parents[n] # NO_PARENT => LinkedToParent(tree'[b], n)
     /\ rounds_executed' # rounds_executed =>
          \A b \in Batch :
            tree'[b].parents[Idx(tree'[b].root_index)] = NO_PARENT
    ]_vars

\* C19 happens: after two re-rootings the initial root and the first
\* new root are populated nodes without a parent that are not the
\* current root, and the current root has a child linked to it.
C19_Witness ==
  /\ pc = "inner"
  /\ rounds_executed = 2
  /\ \E b \in Batch :
       /\ tree[b].root_index > 0
       /\ prev_root_index[b] > 0
       /\ tree[b].parents[prev_root_index[b]] = NO_PARENT
       /\ tree[b].node_visits[prev_root_index[b]] > 0
       /\ \E n \in Populated(tree[b]) :
            tree[b].parents[n] = tree[b].root_index

\* ----------------------------------------------------------------------
\* A round's simulations are running.
InRound == pc \in {"inner", "expand", "backward"}

\* C20 as claimed: with max_depth unset the depth limit of the
\* simulations of every round equals num_simulations.
C20_DefaultIsNumSimulations ==
  (InRound /\ max_depth_arg = None) => max_depth = num_simulations

\* C20 as amended: with max_depth unset the depth limit of the
\* simulations of a round is num_simulations * num_actions_to_generate
\* less the number of rounds executed before it, which is never below
\* num_simulations.
C20_DefaultPerSequence ==
  (InRound /\ max_depth_arg = None) =>
    /\ max_depth = num_simulations * num_actions_to_generate - rounds_executed
    /\ max_depth >= num_simulations

\* C20 happens: a second round runs with the default depth limit, which
\* is above num_simulations.
C20_Witness ==
  /\ pc = "expand"
  /\ max_depth_arg = None
  /\ rounds_executed = 1
  /\ num_simulations > 1
  /\ max_depth > num_simulations

\* ----------------------------------------------------------------------
\* C21: the stopping predicate is called once in every executed round
\* and at no other step: the step that calls it has recorded an action
\* for the round and moved the root to the child under it, the flag it
\* leaves is the predicate's answer for the embeddings stored at the new
\* root indices, and a skipped round calls nothing; so the number of
\* calls is the number of generated actions, 0 before the first one.
C21_StoppingCalledPerAction ==
  [][/\ stopping_calls' = rounds_executed'
     /\ stopping_calls' \in {stopping_calls, stopping_calls + 1}
     /\ stopping_calls' # stopping_calls =>
          /\ generated_action' = generated_action + 1
          /\ \A b \in Batch :
               /\ performed_actions'[b][generated_action] \in Actions
               /\ tree'[b].root_index =
                    tree[b].children_index[Idx(tree[b].root_index)]
                                          [performed_actions'[b][generated_action]]
          /\ stop_generating' = StoppingCriteriaFn(
               [b \in Batch |-> tree'[b].embeddings[Idx(tree'[b].root_index)]])
     /\ (generated_action' # generated_action /\ StopGeneratingOrMaxDepthZero) =>
          /\ stopping_calls' = stopping_calls
          /\ stop_generating' = stop_generating
    ]_vars

\* C21 happens: the predicate was called once, on a new root whose
\* embedding made it answer TRUE where the old root's would not, and the
\* next round was skipped without a call.
C21_Witness ==
  /\ stopping_criteria_fn = "last_action"
  /\ stop_generating
  /\ rounds_executed = 1
  /\ stopping_calls = 1
  /\ generated_action = 2
  /\ max_depth > 0
  /\ \A b \in Batch : tree[b].root_index > 0

\* ----------------------------------------------------------------------
\* C22 as claimed: after every executed round the root index of every
\* batch element is the child of the previous root under the action
\* generated in that round, is not UNVISITED, and is a populated node.
C22_RootIsExpandedChild ==
  (pc = "wrapper" /\ rounds_executed > 0) =>
    \A b \in Batch :
      /\ tree[b].root_index =
           tree[b].children_index[Idx(prev_root_index[b])]
                                 [performed_actions[b][rounds_executed - 1]]
      /\ tree[b].root_index # UNVISITED
      /\ tree[b].node_visits[Idx(tree[b].root_index)] > 0

\* ----------------------------------------------------------------------
\* C23: after every step the action sequence of every batch element is
\* a prefix of action indices, as long as the number of executed
\* rounds, followed by entries of -1 up to num_actions_to_generate; and
\* a step never changes an entry that holds an action.
C23_FilledPrefixThenPadding ==
  [][performed_actions' # <<>> =>
       \A b \in Batch :
         /\ DOMAIN performed_actions'[b] = 0 .. num_actions_to_generate - 1
         /\ rounds_executed' \in 0 .. num_actions_to_generate
         /\ \A k \in 0 .. num_actions_to_generate - 1 :
              /\ k < rounds_executed' => performed_actions'[b][k] \in Actions
              /\ k >= rounds_executed' => performed_actions'[b][k] = UNFILLED
              /\ (performed_actions # <<>> /\ performed_actions[b][k] # UNFILLED)
                   => performed_actions'[b][k] = performed_actions[b][k]
    ]_vars

\* C23 happens: a call for a batch of two returned after one executed
\* round and one skipped round, with one action and one -1 per element.
C23_Witness ==
  /\ pc = "done"
  /\ batch_size = 2
  /\ num_actions_to_generate = 2
  /\ rounds_executed = 1
  /\ \A b \in Batch :
       /\ performed_actions[b][0] \in Actions
       /\ performed_actions[b][1] = UNFILLED

\* ----------------------------------------------------------------------
\* The slots at most d edges of children_index below the slots S.
RECURSIVE WithinEdges(_, _, _)
WithinEdges(row, S, d) ==
  IF d < 0 THEN {}
  ELSE IF d = 0 THEN S
  ELSE WithinEdges(row, S \cup UNION {ChildSlots(row, n) : n \in S}, d - 1)

\* C24 as claimed: the depth limit is the initial one less the number
\* of executed rounds, a round at limit 0 does not start, and every
\* populated node lies at most the initial limit's number of edges
\* below the initial root, node 0.
C24_DepthWithinInitialLimit ==
  tree # <<>> =>
    /\ max_depth = DefaultMaxDepth - rounds_executed
    /\ InRound => max_depth # 0
    /\ \A b \in Batch :
         Populated(tree[b]) \subseteq WithinEdges(tree[b], {0}, DefaultMaxDepth)

====
